---- MODULE Spec2Model ----
(***************************************************************************)
(* Model of result_grader.py: the Grader's interactive grading loop, the   *)
(* ResultsTester predicates and the rubric (run_rubric_tests).             *)
(*                                                                         *)
(* Encoding of Python data:                                                *)
(*   - a scalar value is a record [t, v]: t = "int" is the number v,       *)
(*     t = "str" is the text str(v) (a one-digit numeral, v \in 0..9);     *)
(*   - a row is a sequence of values, a table a sequence of rows;          *)
(*   - a score is held in tenths (10 is 1.0, 8 is .8, ...), -1 is unset;   *)
(*   - the outcome of a call is a string: "True" / "False" for a returned  *)
(*     bool, the exception's name for a raise.                             *)
(***************************************************************************)
EXTENDS Integers, Sequences, FiniteSets

VARIABLES pc, grader_query, executed,
          student_cols, student_rows, grader_cols, grader_rows,
          tester_built, score, hints, exc, printed, called, ret

vars == <<pc, grader_query, executed,
          student_cols, student_rows, grader_cols, grader_rows,
          tester_built, score, hints, exc, printed, called, ret>>

(***************************************************************************)
(* Bounds of the model.                                                    *)
(***************************************************************************)
MaxCols == 2
MaxRows == 2
MaxCells == 4
MaxCount == 10

(* threshold=.5, as the fraction ThresholdNum / ThresholdDen *)
ThresholdNum == 1
ThresholdDen == 2

(***************************************************************************)
(* Values                                                                  *)
(***************************************************************************)
IntVal(n) == [t |-> "int", v |-> n]
StrVal(n) == [t |-> "str", v |-> n]

Abs(x) == IF x < 0 THEN 0 - x ELSE x

Range(s) == {s[i] : i \in 1..Len(s)}

PyBool(b) == IF b THEN "True" ELSE "False"

\* Python 2 ordering of scalars: every number sorts before every string;
\* numbers by value, strings by their characters.
TypeRank(x) == IF x.t = "int" THEN 0 ELSE 1

PyLess(x, y) ==
    \/ TypeRank(x) < TypeRank(y)
    \/ TypeRank(x) = TypeRank(y) /\ x.v < y.v

\* Python's ordering of two lists: the first differing element decides,
\* a proper prefix is smaller.
PyListLess(a, b) ==
    \/ \E i \in 1..Len(a) :
          /\ i <= Len(b)
          /\ \A j \in 1..(i - 1) : a[j] = b[j]
          /\ PyLess(a[i], b[i])
    \/ /\ Len(a) < Len(b)
       /\ \A j \in 1..Len(a) : a[j] = b[j]

\* np.lexsort(keys) orders by the LAST key first: with keys = columns 0..k-1,
\* column k-1 is the primary key, column 0 the least significant.
LexsortLess(a, b) ==
    \E i \in 1..Len(a) :
        /\ \A j \in (i + 1)..Len(a) : a[j] = b[j]
        /\ a[i].v < b[i].v

\* The ordering a sort goes by.
Less(order, a, b) ==
    CASE order = "scalars" -> PyLess(a, b)
      [] order = "lists" -> PyListLess(a, b)
      [] order = "lexsort" -> LexsortLess(a, b)

\* sorted(): a stable sort; x goes after the elements not greater than it.
InsertBy(s, x, order) ==
    LET pos == Cardinality({j \in 1..Len(s) : ~Less(order, x, s[j])})
    IN  SubSeq(s, 1, pos) \o <<x>> \o SubSeq(s, pos + 1, Len(s))

SortBy(s, order) ==
    LET ins[i \in 0..Len(s)] ==
            IF i = 0 THEN <<>> ELSE InsertBy(ins[i - 1], s[i], order)
    IN  ins[Len(s)]

sorted_row(row) == SortBy(row, "scalars")

sorted_rows(rows) == SortBy(rows, "lists")

(***************************************************************************)
(* numpy                                                                   *)
(***************************************************************************)
\* np.array(rows): one dtype for the whole array. Numbers alone give an
\* integer array; as soon as one cell is text every cell becomes text
\* (the number n becomes str(n)).
HasStr(rows) == \E i \in 1..Len(rows) : \E j \in 1..Len(rows[i]) : rows[i][j].t = "str"

np_array(rows) ==
    IF HasStr(rows)
    THEN [i \in 1..Len(rows) |-> [j \in 1..Len(rows[i]) |-> StrVal(rows[i][j].v)]]
    ELSE rows

sort_array_allcols(array) == SortBy(array, "lexsort")

\* itertools.permutations(range(k))
permutations(k) ==
    {p \in [1..k -> 1..k] : \A i, j \in 1..k : i # j => p[i] # p[j]}

\* array[:, i] for a permutation i of the column indices
swap_cols(array, p) ==
    [r \in 1..Len(array) |-> [j \in 1..Len(p) |-> array[r][p[j]]]]

(***************************************************************************)
(* ResultsTester: self is the record of the four fields set by __init__.   *)
(***************************************************************************)
ResultsTester(sc, sr, gc, gr) ==
    [student_cols |-> sc, student_rows |-> sr,
     grader_cols |-> gc, grader_rows |-> gr]

rows_exact_test(self) == self.student_rows = self.grader_rows

rows_count_exact_test(self) == Len(self.student_rows) = Len(self.grader_rows)

\* abs(1.0 * s - g) / g <= threshold; the division raises when g = 0.
count_close(s, g) ==
    IF g = 0 THEN "ZeroDivisionError"
    ELSE PyBool(Abs(s - g) * ThresholdDen <= ThresholdNum * g)

rows_count_close_test(self) ==
    count_close(Len(self.student_rows), Len(self.grader_rows))

\* Mutant: the rows are not sorted one by one before the table is sorted.
rows_unsorted_guess_unsorted_rows(self) ==
    sorted_rows(self.grader_rows) = sorted_rows(self.student_rows)

rows_unsorted_guess(self) ==
    LET sorted_grader_rows ==
            sorted_rows([i \in 1..Len(self.grader_rows) |-> sorted_row(self.grader_rows[i])])
        sorted_student_rows ==
            sorted_rows([i \in 1..Len(self.student_rows) |-> sorted_row(self.student_rows[i])])
    IN  sorted_grader_rows = sorted_student_rows

cols_exact_test(self) == self.student_cols = self.grader_cols

cols_count_exact_test(self) == Len(self.student_cols) = Len(self.grader_cols)

cols_count_close_test(self) ==
    count_close(Len(self.student_cols), Len(self.grader_cols))

\* sorted(student_cols) == sorted(grader_cols): the same names, each as often.
Count(s, x) == Cardinality({i \in 1..Len(s) : s[i] = x})

cols_unsorted_test(self) ==
    /\ Len(self.student_cols) = Len(self.grader_cols)
    /\ \A x \in Range(self.student_cols) \cup Range(self.grader_cols) :
          Count(self.student_cols, x) = Count(self.grader_cols, x)

rows_unsorted_test(self) ==
    IF (~cols_count_exact_test(self)) \/ (~rows_count_exact_test(self))
    THEN FALSE
    ELSE IF rows_exact_test(self)
    THEN TRUE
    ELSE LET grader_rows_array == np_array(self.grader_rows)
             student_rows_array == np_array(self.student_rows)
             sorted_grader_rows == sort_array_allcols(grader_rows_array)
         IN  \E permutation \in permutations(Len(self.student_cols)) :
                sort_array_allcols(swap_cols(student_rows_array, permutation))
                    = sorted_grader_rows

(***************************************************************************)
(* run_rubric_tests                                                        *)
(***************************************************************************)
\* results[test] for the tests that return a bool
rubric_results(self) ==
    [keyword_test |-> TRUE,
     rows_count_close_test |-> rows_count_close_test(self) = "True",
     rows_count_exact_test |-> rows_count_exact_test(self),
     rows_unsorted_guess |-> rows_unsorted_guess(self),
     rows_exact_test |-> rows_exact_test(self),
     cols_count_close_test |-> cols_count_close_test(self) = "True",
     cols_count_exact_test |-> cols_count_exact_test(self),
     cols_unsorted_test |-> cols_unsorted_test(self),
     cols_exact_test |-> cols_exact_test(self)]

\* Mutant: the structural tier is tried before the quick guess.
rubric_score_tiers_swapped(results) ==
    IF results.rows_exact_test /\ results.cols_exact_test /\ results.keyword_test
    THEN 10
    ELSE IF /\ \/ results.cols_unsorted_test /\ results.rows_count_close_test
               \/ results.cols_count_exact_test /\ results.rows_count_exact_test
               \/ results.cols_exact_test
            /\ results.keyword_test
    THEN 6
    ELSE IF results.rows_unsorted_guess /\ results.keyword_test
    THEN 8
    ELSE IF results.rows_count_close_test /\ results.cols_count_close_test
    THEN 4
    ELSE 0

rubric_score(results) ==
    IF results.rows_exact_test /\ results.cols_exact_test /\ results.keyword_test
    THEN 10
    ELSE IF results.rows_unsorted_guess /\ results.keyword_test
    THEN 8
    ELSE IF /\ \/ results.cols_unsorted_test /\ results.rows_count_close_test
               \/ results.cols_count_exact_test /\ results.rows_count_exact_test
               \/ results.cols_exact_test
            /\ results.keyword_test
    THEN 6
    ELSE IF results.rows_count_close_test /\ results.cols_count_close_test
    THEN 4
    ELSE 0

rubric_row_hints(self, results) ==
    IF ~results.rows_count_exact_test
    THEN IF Len(self.student_rows) > Len(self.grader_rows)
         THEN <<"Too many rows.">>
         ELSE <<"Too few rows.">>
    ELSE <<>>

\* Mutant: the last branch (wrong values) is missing.
rubric_col_hints_no_values_hint(self, results) ==
    IF ~results.cols_count_exact_test
    THEN IF Len(self.student_cols) > Len(self.grader_cols)
         THEN <<"Too many columns.">>
         ELSE <<"Too few columns.">>
    ELSE IF ~results.cols_unsorted_test
    THEN <<"Columns are named incorrectly.">>
    ELSE IF ~results.cols_exact_test
    THEN <<"Columns are out of order.">>
    ELSE IF results.rows_unsorted_guess /\ ~results.rows_exact_test
    THEN <<"Rows are out of order.">>
    ELSE <<>>

rubric_col_hints(self, results) ==
    IF ~results.cols_count_exact_test
    THEN IF Len(self.student_cols) > Len(self.grader_cols)
         THEN <<"Too many columns.">>
         ELSE <<"Too few columns.">>
    ELSE IF ~results.cols_unsorted_test
    THEN <<"Columns are named incorrectly.">>
    ELSE IF ~results.cols_exact_test
    THEN <<"Columns are out of order.">>
    ELSE IF results.rows_unsorted_guess /\ ~results.rows_exact_test
    THEN <<"Rows are out of order.">>
    ELSE IF results.rows_count_exact_test /\ ~results.rows_unsorted_guess
    THEN <<"Incorrect column calculation">>
    ELSE <<>>

\* Mutant: the column hint is appended before the row-count hint.
rubric_hints_cols_first(self, results) ==
    rubric_col_hints(self, results) \o rubric_row_hints(self, results)

rubric_hints(self, results) ==
    rubric_row_hints(self, results) \o rubric_col_hints(self, results)

\* The outcome of run_rubric_tests: the exception a test raised in the loop
\* over rows_tests + cols_tests (rows_count_close_test is called first,
\* cols_count_close_test fifth; the other tests do not raise), or else the
\* (score, hints) returned.
run_rubric_tests(self) ==
    IF rows_count_close_test(self) \notin {"True", "False"}
    THEN [exc |-> rows_count_close_test(self), score |-> -1, hints |-> <<>>]
    ELSE IF cols_count_close_test(self) \notin {"True", "False"}
    THEN [exc |-> cols_count_close_test(self), score |-> -1, hints |-> <<>>]
    ELSE LET results == rubric_results(self)
         IN  [exc |-> "none",
              score |-> rubric_score(results),
              hints |-> rubric_hints(self, results)]

(***************************************************************************)
(* Inputs: the result sets a query can produce, within the bounds.         *)
(***************************************************************************)
ColNames == {"a", "b"}

Queries == {"q1", "q2"}

RubricVals == {IntVal(1), StrVal(1)}

EquivVals == {IntVal(1), IntVal(2), StrVal(1)}

Shapes == {kn \in (0..MaxCols) \X (0..MaxRows) : kn[1] * kn[2] <= MaxCells}

\* Every row of a result set is as long as its column list.
ResultSets(Vals, Names) ==
    UNION {[cols : [1..kn[1] -> Names], rows : [1..kn[2] -> [1..kn[1] -> Vals]]] :
              kn \in Shapes}

\* What the cursor does with a statement: MySQL raises an error, or there
\* is a result set.
CursorOutcomes ==
    {[error |-> TRUE, cols |-> <<>>, rows |-> <<>>]}
        \cup {[error |-> FALSE, cols |-> t.cols, rows |-> t.rows] :
                  t \in ResultSets(RubricVals, ColNames)}

(***************************************************************************)
(* Grader                                                                  *)
(***************************************************************************)
\* Mutant: a MySQL error is swallowed and an empty result is returned.
execute_query_empty_on_error(cursor) ==
    [exc |-> "none", cols |-> cursor.cols, rows |-> cursor.rows]

\* execute_query: a MySQL error becomes InvalidQuery, else (cols, rows).
execute_query(cursor) ==
    IF cursor.error
    THEN [exc |-> "InvalidQuery", cols |-> <<>>, rows |-> <<>>]
    ELSE [exc |-> "none", cols |-> cursor.cols, rows |-> cursor.rows]

Executed(stmt, cursor) == [stmt |-> stmt, error |-> cursor.error]

Init ==
    /\ pc = "start"
    /\ grader_query = "none"
    /\ executed = <<>>
    /\ student_cols = <<>> /\ student_rows = <<>>
    /\ grader_cols = <<>> /\ grader_rows = <<>>
    /\ tester_built = FALSE
    /\ score = -1
    /\ hints = <<>>
    /\ exc = "none"
    /\ printed = "none"
    /\ called = "none"
    /\ ret = "none"

\* grader_query = raw_input("Enter Grader Query: "), once.
ReadGraderQuery ==
    /\ pc = "start"
    /\ \E q \in Queries : grader_query' = q
    /\ pc' = "prompt"
    /\ UNCHANGED <<executed, student_cols, student_rows, grader_cols, grader_rows,
                   tester_built, score, hints, exc, printed, called, ret>>

\* One pass of the loop body when the student's statement fails:
\* execute_query raises InvalidQuery, which leaves grade_query before the
\* grader's statement is executed; the loop prints the error.
GradeStudentInvalid ==
    /\ pc = "prompt"
    /\ \E sc \in CursorOutcomes :
          /\ execute_query(sc).exc = "InvalidQuery"
          /\ executed' = <<Executed("student_query", sc)>>
    /\ exc' = "InvalidQuery"
    /\ printed' = "error"
    /\ pc' = "caught"
    /\ UNCHANGED <<grader_query, student_cols, student_rows, grader_cols, grader_rows,
                   tester_built, score, hints, called, ret>>

\* The same when the grader's statement fails.
GradeGraderInvalid ==
    /\ pc = "prompt"
    /\ \E sc \in CursorOutcomes, gc \in CursorOutcomes :
          /\ execute_query(sc).exc = "none"
          /\ execute_query(gc).exc = "InvalidQuery"
          /\ student_cols' = execute_query(sc).cols
          /\ student_rows' = execute_query(sc).rows
          /\ executed' = <<Executed("student_query", sc), Executed(grader_query, gc)>>
    /\ exc' = "InvalidQuery"
    /\ printed' = "error"
    /\ pc' = "caught"
    /\ UNCHANGED <<grader_query, grader_cols, grader_rows,
                   tester_built, score, hints, called, ret>>

\* Both statements give a result set: the tester is built and
\* run_rubric_tests returns; the score and the hints are printed.
GradeScored ==
    /\ pc = "prompt"
    /\ \E sc \in CursorOutcomes, gc \in CursorOutcomes :
          /\ execute_query(sc).exc = "none"
          /\ execute_query(gc).exc = "none"
          /\ LET s == execute_query(sc)
                 g == execute_query(gc)
                 out == run_rubric_tests(ResultsTester(s.cols, s.rows, g.cols, g.rows))
             IN  /\ out.exc = "none"
                 /\ student_cols' = s.cols /\ student_rows' = s.rows
                 /\ grader_cols' = g.cols /\ grader_rows' = g.rows
                 /\ executed' = <<Executed("student_query", sc), Executed(grader_query, gc)>>
                 /\ score' = out.score
                 /\ hints' = out.hints
    /\ tester_built' = TRUE
    /\ printed' = "score"
    /\ pc' = "graded"
    /\ UNCHANGED <<grader_query, exc, called, ret>>

\* Both statements give a result set and a test raises inside
\* run_rubric_tests: the loop catches InvalidQuery only, the program ends.
GradeRaised ==
    /\ pc = "prompt"
    /\ \E sc \in CursorOutcomes, gc \in CursorOutcomes :
          /\ execute_query(sc).exc = "none"
          /\ execute_query(gc).exc = "none"
          /\ LET s == execute_query(sc)
                 g == execute_query(gc)
                 out == run_rubric_tests(ResultsTester(s.cols, s.rows, g.cols, g.rows))
             IN  /\ out.exc # "none"
                 /\ student_cols' = s.cols /\ student_rows' = s.rows
                 /\ grader_cols' = g.cols /\ grader_rows' = g.rows
                 /\ executed' = <<Executed("student_query", sc), Executed(grader_query, gc)>>
                 /\ exc' = out.exc
    /\ tester_built' = TRUE
    /\ pc' = "crashed"
    /\ UNCHANGED <<grader_query, score, hints, printed, called, ret>>

\* continue (after except InvalidQuery), or grade_query returned: the loop
\* prompts for the next student query; the locals of the last pass are gone.
NextStudentQuery ==
    /\ pc \in {"caught", "graded"}
    /\ pc' = "prompt"
    /\ executed' = <<>>
    /\ student_cols' = <<>> /\ student_rows' = <<>>
    /\ grader_cols' = <<>> /\ grader_rows' = <<>>
    /\ tester_built' = FALSE
    /\ score' = -1
    /\ hints' = <<>>
    /\ exc' = "none"
    /\ printed' = "none"
    /\ UNCHANGED <<grader_query, called, ret>>

Next ==
    \/ ReadGraderQuery
    \/ GradeStudentInvalid
    \/ GradeGraderInvalid
    \/ GradeScored
    \/ GradeRaised
    \/ NextStudentQuery

Spec == Init /\ [][Next]_vars

\* The tester of the current grade_query call.
Tester == ResultsTester(student_cols, student_rows, grader_cols, grader_rows)

(***************************************************************************)
(* The tests called one at a time on a constructed ResultsTester.          *)
(***************************************************************************)
InitTester(student, grader) ==
    /\ pc = "tester"
    /\ grader_query = "none"
    /\ executed = <<>>
    /\ student_cols = student.cols /\ student_rows = student.rows
    /\ grader_cols = grader.cols /\ grader_rows = grader.rows
    /\ tester_built = TRUE
    /\ score = -1
    /\ hints = <<>>
    /\ exc = "none"
    /\ printed = "none"
    /\ called = "none"
    /\ ret = "none"

Call(test, outcome) ==
    /\ pc = "tester"
    /\ called' = test
    /\ ret' = outcome
    /\ pc' = "returned"
    /\ UNCHANGED <<grader_query, executed, student_cols, student_rows,
                   grader_cols, grader_rows, tester_built, score, hints, exc, printed>>

CallRowsExact == Call("rows_exact_test", PyBool(rows_exact_test(Tester)))

CallRowsUnsortedGuess == Call("rows_unsorted_guess", PyBool(rows_unsorted_guess(Tester)))

CallRowsUnsortedTest == Call("rows_unsorted_test", PyBool(rows_unsorted_test(Tester)))

CallRowsCountClose == Call("rows_count_close_test", rows_count_close_test(Tester))

CallColsCountClose == Call("cols_count_close_test", cols_count_close_test(Tester))

NextRows ==
    \/ CallRowsExact
    \/ CallRowsUnsortedGuess
    \/ CallRowsUnsortedTest

NextClose ==
    \/ CallRowsCountClose
    \/ CallColsCountClose

\* Any two result sets over numbers and text.
InitEquiv ==
    \E student \in ResultSets(EquivVals, {"a"}), grader \in ResultSets(EquivVals, {"a"}) :
        InitTester(student, grader)

SpecEquiv == InitEquiv /\ [][NextRows]_vars

\* Two tables of two columns and two rows, each holding 1, 2, 3, 4 once.
ExampleRows ==
    {r \in [1..2 -> [1..2 -> {IntVal(n) : n \in 1..4}]] :
        {r[i][j].v : i \in 1..2, j \in 1..2} = 1..4}

InitExample ==
    \E sr \in ExampleRows, gr \in ExampleRows :
        InitTester([cols |-> <<"a", "b">>, rows |-> sr], [cols |-> <<"a", "b">>, rows |-> gr])

SpecExample == InitExample /\ [][NextRows]_vars

\* Result sets of every shape up to MaxCount columns and MaxCount rows,
\* every cell the same.
Uniform(k, n) ==
    [cols |-> [j \in 1..k |-> "a"], rows |-> [i \in 1..n |-> [j \in 1..k |-> IntVal(1)]]]

InitClose ==
    \E ks \in 0..MaxCount, ns \in 0..MaxCount, kg \in 0..MaxCount, ng \in 0..MaxCount :
        InitTester(Uniform(ks, ns), Uniform(kg, ng))

SpecClose == InitClose /\ [][NextClose]_vars

(***************************************************************************)
(* Properties                                                              *)
(***************************************************************************)
Tiers == {0, 4, 6, 8, 10}

\* C1 (Identity): a result set graded against itself (any column list, any
\* number of rows, zero included) gets score 1.0 and no hint.
C1_Identity ==
    (tester_built /\ student_cols = grader_cols /\ student_rows = grader_rows)
        => (pc = "graded" /\ score = 10 /\ hints = <<>>)

\* C2 (Tier policy): whenever run_rubric_tests returns, the score is the
\* first tier that matches, in the order 1.0, 0.8, 0.6, 0.4, 0.0: 1.0 iff
\* exact rows and exact columns; 0.8 iff not that and the quick guess holds;
\* 0.6 iff neither and one of the three structural matches holds; 0.4 iff
\* none of these and both counts are close; 0.0 iff nothing matches. No
\* other score is returned.
C2_TierPolicy ==
    pc = "graded" =>
        LET perfect == rows_exact_test(Tester) /\ cols_exact_test(Tester)
            close == rows_unsorted_guess(Tester)
            nice == \/ /\ cols_unsorted_test(Tester)
                       /\ rows_count_close_test(Tester) = "True"
                    \/ /\ cols_count_exact_test(Tester)
                       /\ rows_count_exact_test(Tester)
                    \/ cols_exact_test(Tester)
            decent == /\ rows_count_close_test(Tester) = "True"
                      /\ cols_count_close_test(Tester) = "True"
        IN  /\ score \in Tiers
            /\ (score = 10) <=> perfect
            /\ (score = 8) <=> (~perfect /\ close)
            /\ (score = 6) <=> (~perfect /\ ~close /\ nice)
            /\ (score = 4) <=> (~perfect /\ ~close /\ ~nice /\ decent)
            /\ (score = 0) <=> (~perfect /\ ~close /\ ~nice /\ ~decent)

\* A verdict of the fourth tier: the three tiers before it did not match.
C2_Witness ==
    /\ pc = "graded"
    /\ score = 4
    /\ ~rows_unsorted_guess(Tester)
    /\ ~(cols_count_exact_test(Tester) /\ rows_count_exact_test(Tester))

RowHints == {"Too many rows.", "Too few rows."}

ColHints ==
    {"Too many columns.", "Too few columns.", "Columns are named incorrectly.",
     "Columns are out of order.", "Rows are out of order.",
     "Incorrect column calculation"}

\* C3 (Hint derivation): the returned hints are a row-count hint iff the
\* row counts differ (too many / too few by direction), followed by at most
\* one hint, chosen by the first condition that holds: column counts differ
\* (too many / too few); else the names differ as a multiset; else the
\* column sequence differs; else the quick guess holds without exact row
\* order; else the row counts are equal and the quick guess fails. So there
\* are at most two hints, none twice, and the row-count hint comes first.
C3_HintDerivation ==
    pc = "graded" =>
        LET has(h) == h \in Range(hints)
            ns == Len(student_rows)
            ng == Len(grader_rows)
            ks == Len(student_cols)
            kg == Len(grader_cols)
            names == cols_unsorted_test(Tester)
            order == cols_exact_test(Tester)
            guess == rows_unsorted_guess(Tester)
        IN  /\ has("Too many rows.") <=> ns > ng
            /\ has("Too few rows.") <=> ns < ng
            /\ has("Too many columns.") <=> ks > kg
            /\ has("Too few columns.") <=> ks < kg
            /\ has("Columns are named incorrectly.") <=> (ks = kg /\ ~names)
            /\ has("Columns are out of order.") <=> (ks = kg /\ names /\ ~order)
            /\ has("Rows are out of order.") <=>
                   (ks = kg /\ names /\ order /\ guess /\ ~rows_exact_test(Tester))
            /\ has("Incorrect column calculation") <=>
                   (ks = kg /\ names /\ order /\ ns = ng /\ ~guess)
            /\ Range(hints) \subseteq RowHints \cup ColHints
            /\ Len(hints) <= 2
            /\ \A i, j \in 1..Len(hints) : i # j => hints[i] # hints[j]
            /\ \A i \in 1..Len(hints) : hints[i] \in RowHints => i = 1
            /\ Cardinality(Range(hints) \cap ColHints) <= 1

\* Two hints are returned, the row-count hint before the column hint.
C3_Witness ==
    /\ pc = "graded"
    /\ Len(hints) = 2
    /\ hints[1] = "Too few rows."
    /\ hints[2] = "Columns are out of order."

\* C4 (Totality): for any two well-formed result sets, a grader result with
\* zero rows or zero columns included, run_rubric_tests raises nothing and
\* returns a score in {0.0, 0.4, 0.6, 0.8, 1.0}.
C4_Totality ==
    tester_built => (exc = "none" /\ pc = "graded" /\ score \in Tiers)

Bijections(n) == {f \in [1..n -> 1..n] : {f[i] : i \in 1..n} = 1..n}

\* Some permutation of the grader's columns and some reordering of its rows
\* give the student's table, cell for cell.
Equivalent ==
    /\ Len(student_cols) = Len(grader_cols)
    /\ Len(student_rows) = Len(grader_rows)
    /\ \E p \in Bijections(Len(grader_cols)), q \in Bijections(Len(grader_rows)) :
          \A i \in 1..Len(student_rows), j \in 1..Len(student_cols) :
              grader_rows[q[i]][p[j]] = student_rows[i][j]

\* C5 (Permutation-invariant equivalence): rows_unsorted_test returns true
\* iff a column permutation and a row reordering make the grader's table
\* identical to the student's; so it is false when a count differs.
C5_Equivalence ==
    called = "rows_unsorted_test" =>
        /\ (ret = "True") <=> Equivalent
        /\ (Len(student_cols) # Len(grader_cols) \/ Len(student_rows) # Len(grader_rows))
               => ret = "False"

\* C6 (No false negative): when rows_unsorted_test returns true,
\* rows_unsorted_guess returns true; and when rows_exact_test returns true,
\* rows_unsorted_guess returns true.
C6_NoFalseNegative ==
    /\ (called = "rows_unsorted_test" /\ ret = "True") => rows_unsorted_guess(Tester)
    /\ (called = "rows_exact_test" /\ ret = "True") => rows_unsorted_guess(Tester)

ExampleStudent == <<<<IntVal(1), IntVal(2)>>, <<IntVal(3), IntVal(4)>>>>

ExampleGrader == <<<<IntVal(1), IntVal(4)>>, <<IntVal(3), IntVal(2)>>>>

\* C7 (False-positive example): for student rows [(1,2),(3,4)] and grader
\* rows [(1,4),(3,2)] rows_unsorted_guess returns true and
\* rows_unsorted_test returns false.
C7_FalsePositiveExample ==
    (student_rows = ExampleStudent /\ grader_rows = ExampleGrader) =>
        /\ called = "rows_unsorted_guess" => ret = "True"
        /\ called = "rows_unsorted_test" => ret = "False"

ExampleGraderSwapped == <<<<IntVal(2), IntVal(1)>>, <<IntVal(3), IntVal(4)>>>>

\* C7 as amended: for student rows [(1,2),(3,4)] and grader rows
\* [(1,4),(3,2)] the rows sorted one by one differ ([1,2],[3,4] against
\* [1,4],[2,3]): rows_unsorted_guess returns false, and so does
\* rows_unsorted_test. A false positive is student rows [(1,2),(3,4)] against
\* grader rows [(2,1),(3,4)]: rows_unsorted_guess returns true and
\* rows_unsorted_test returns false.
C7_ExampleAmended ==
    /\ (student_rows = ExampleStudent /\ grader_rows = ExampleGrader) =>
           /\ called = "rows_unsorted_guess" => ret = "False"
           /\ called = "rows_unsorted_test" => ret = "False"
    /\ (student_rows = ExampleStudent /\ grader_rows = ExampleGraderSwapped) =>
           /\ called = "rows_unsorted_guess" => ret = "True"
           /\ called = "rows_unsorted_test" => ret = "False"

\* rows_unsorted_guess has returned true on the pair that no column
\* permutation relates.
C7_Witness ==
    /\ student_rows = ExampleStudent
    /\ grader_rows = ExampleGraderSwapped
    /\ called = "rows_unsorted_guess"
    /\ ret = "True"
    /\ ~Equivalent

\* |s - g| / g <= 0.5, and for g = 0: true iff s = 0.
C8_Close(s, g) == IF g = 0 THEN s = 0 ELSE 10 * Abs(s - g) <= 5 * g

\* C8 (Relative closeness): rows_count_close_test and cols_count_close_test
\* return true iff |student - grader| / grader <= 0.5, the boundary
\* included (grader 10, student 5: true; student 4: false); with a grader
\* count of zero they return true iff the student count is zero.
C8_RelativeCloseness ==
    /\ called = "rows_count_close_test" =>
           ret = PyBool(C8_Close(Len(student_rows), Len(grader_rows)))
    /\ called = "cols_count_close_test" =>
           ret = PyBool(C8_Close(Len(student_cols), Len(grader_cols)))
    /\ (called = "rows_count_close_test" /\ Len(grader_rows) = 10) =>
           /\ Len(student_rows) = 5 => ret = "True"
           /\ Len(student_rows) = 4 => ret = "False"

MySQLError(log) == \E i \in 1..Len(log) : log[i].error

C10_NoHintsIffPerfect ==
    pc = "graded" => ((hints = <<>>) <=> (score = 10))

\* A verdict below 1.0 whose columns and row count are right: its one hint
\* is about the values.
C10_Witness ==
    /\ pc = "graded"
    /\ score = 6
    /\ hints = <<"Incorrect column calculation">>

====
